---------------------------- MODULE Spec2Model ----------------------------
(***************************************************************************)
(* Model of the rubric engine of src/app.py: the text helpers, the eight   *)
(* criterion scorers and analyze_transcript, which runs them in order and  *)
(* accumulates the composite.                                              *)
(*                                                                         *)
(* Texts are TLA+ strings; a character is a string of length one.          *)
(* Scores are kept in thirds of a point (Pts(5) is five points), because   *)
(* the keyword scorer credits 20/6 = 10/3 points per must-have category.   *)
(* Ratios that the code compares with a threshold (wpm, TTR, filler rate,  *)
(* errors per 100 words) are compared by cross-multiplication.             *)
(* A feedback string is a record [label, args]: label is the literal part  *)
(* of the f-string, args are the numbers it interpolates.                  *)
(***************************************************************************)
EXTENDS Integers, Sequences, FiniteSets, TLC

(***************************************************************************)
(* Bounds of the model.                                                    *)
(***************************************************************************)
MaxPieces == 2
MaxCalls == 3

(***************************************************************************)
(* Characters.                                                             *)
(***************************************************************************)
LowerLetters == "abcdefghijklmnopqrstuvwxyz"
UpperLetters == "ABCDEFGHIJKLMNOPQRSTUVWXYZ"
DigitChars == "0123456789_"

CharAt(s, i) == SubSeq(s, i, i)

CharsOf(s) == { CharAt(s, i) : i \in 1..Len(s) }

\* [a-z]
LOWER == CharsOf(LowerLetters)

\* \w of the re module: letters, digits and the underscore
WORDCHARS == LOWER \cup CharsOf(UpperLetters) \cup CharsOf(DigitChars)

\* \s of the re module, and the characters str.strip / str.split remove
WHITESPACE == {" ", "\t", "\n", "\r", "\f"}

\* [.!?]
ENDMARKS == {".", "!", "?"}

\* str.lower on one character
LowerChar(c) ==
    IF \E i \in 1..Len(UpperLetters) : CharAt(UpperLetters, i) = c
    THEN CharAt(LowerLetters, CHOOSE i \in 1..Len(UpperLetters) : CharAt(UpperLetters, i) = c)
    ELSE c

\* the first j in i..n that satisfies P, n + 1 when there is none
FirstFrom(i, n, P(_)) ==
    IF i > n THEN n + 1
    ELSE CHOOSE j \in i..(n + 1) : /\ j = n + 1 \/ P(j)
                                   /\ \A k \in i..(j - 1) : ~P(k)

\* parts[a] \o ... \o parts[b], by halves; empty is the value of the empty range
RECURSIVE Concat(_, _, _, _)
Concat(parts, a, b, empty) ==
    IF a > b THEN empty
    ELSE IF a = b THEN parts[a]
    ELSE LET m == (a + b) \div 2
         IN Concat(parts, a, m, empty) \o Concat(parts, m + 1, b, empty)

\* str.lower
lower(s) == Concat([i \in 1..Len(s) |-> LowerChar(CharAt(s, i))], 1, Len(s), "")

(***************************************************************************)
(* String primitives of the Python runtime used by the scorers.            *)
(***************************************************************************)
\* k in t
Contains(t, k) ==
    \E i \in 0..(Len(t) - Len(k)) : SubSeq(t, i + 1, i + Len(k)) = k

\* any(k in t for k in keys), keys a sequence of phrases
AnyIn(t, keys) == \E j \in 1..Len(keys) : Contains(t, keys[j])

\* str.count: the number of non-overlapping occurrences, scanning from the left
RECURSIVE CountFrom(_, _, _)
CountFrom(t, sub, i) ==
    LET last == Len(t) - Len(sub) + 1
        j == FirstFrom(i, last, LAMBDA k : SubSeq(t, k, k + Len(sub) - 1) = sub)
    IN IF j > last THEN 0 ELSE 1 + CountFrom(t, sub, j + Len(sub))

StrCount(t, sub) == CountFrom(t, sub, 1)

\* the first position >= i whose character is (in = TRUE) or is not
\* (in = FALSE) a member of cs; Len(s) + 1 when there is none
Scan(s, i, cs, in) == FirstFrom(i, Len(s), LAMBDA j : (CharAt(s, j) \in cs) = in)

\* the maximal runs of s made of characters in cs (in = TRUE) or of
\* characters outside cs (in = FALSE), left to right
Runs(s, cs, in) ==
    LET starts(i) == /\ (CharAt(s, i) \in cs) = in
                     /\ i = 1 \/ (CharAt(s, i - 1) \in cs) # in
    IN Concat([i \in 1..Len(s) |->
                  IF starts(i) THEN << SubSeq(s, i, Scan(s, i, cs, ~in) - 1) >> ELSE << >>],
              1, Len(s), << >>)

\* str.split(): the whitespace-separated words
Split(s) == Runs(s, WHITESPACE, FALSE)

\* the last position <= i whose character is outside cs; 0 when there is none
ScanBack(s, i, cs) ==
    IF \E j \in 1..i : CharAt(s, j) \notin cs
    THEN CHOOSE j \in 1..i : /\ CharAt(s, j) \notin cs
                             /\ \A k \in (j + 1)..i : CharAt(s, k) \in cs
    ELSE 0

\* str.strip(chars): drop the leading and trailing characters that are in cs
StripChars(s, cs) == SubSeq(s, Scan(s, 1, cs, FALSE), ScanBack(s, Len(s), cs))

\* str.strip()
Strip(s) == StripChars(s, WHITESPACE)

\* re.sub(r'\s+', ' ', s): every maximal whitespace run becomes one space
ReSubSpaces(s) ==
    Concat([i \in 1..Len(s) |->
               IF CharAt(s, i) \notin WHITESPACE THEN CharAt(s, i)
               ELSE IF i > 1 /\ CharAt(s, i - 1) \in WHITESPACE THEN "" ELSE " "],
           1, Len(s), "")

\* str.split('.'): the segments between single dots, empty ones included
SplitDot(s) ==
    Concat([i \in 1..(Len(s) + 1) |->
               IF i = 1 \/ CharAt(s, i - 1) = "."
               THEN << SubSeq(s, i, Scan(s, i, {"."}, TRUE) - 1) >> ELSE << >>],
           1, Len(s) + 1, << >>)

\* re.split(r'[.!?]+', s): the fragments between maximal runs of end marks
ReSplitEndMarks(s) ==
    Concat([i \in 1..(Len(s) + 1) |->
               IF \/ i = 1
                  \/ /\ CharAt(s, i - 1) \in ENDMARKS
                     /\ i > Len(s) \/ CharAt(s, i) \notin ENDMARKS
               THEN << SubSeq(s, i, Scan(s, i, ENDMARKS, TRUE) - 1) >> ELSE << >>],
           1, Len(s) + 1, << >>)

\* re.findall(r'\b\w+\b', s): the maximal runs of word characters
FindWords(s) == Runs(s, WORDCHARS, TRUE)

\* re.findall(r'\b[a-z]+\b', s): the runs of word characters that are all [a-z]
FindLowerWords(s) ==
    SelectSeq(FindWords(s), LAMBDA w : \A i \in 1..Len(w) : CharAt(w, i) \in LOWER)

\* where a match of r'\s+i\s+(?=[a-z])' that starts at b ends (exclusive); 0 for no match
LoneIEnd(s, b) ==
    LET p == Scan(s, b, WHITESPACE, FALSE)
        q == Scan(s, p + 1, WHITESPACE, FALSE)
    IN IF /\ CharAt(s, b) \in WHITESPACE
          /\ p <= Len(s) /\ CharAt(s, p) = "i"
          /\ q > p + 1
          /\ q <= Len(s) /\ CharAt(s, q) \in LOWER
       THEN q ELSE 0

\* len(re.findall(r'\s+i\s+(?=[a-z])', s)): left to right, non-overlapping
RECURSIVE CountLoneI(_, _)
CountLoneI(s, i) ==
    LET b == FirstFrom(i, Len(s), LAMBDA j : LoneIEnd(s, j) > 0)
    IN IF b > Len(s) THEN 0 ELSE 1 + CountLoneI(s, LoneIEnd(s, b))

\* where a match of r'[.!?]\s+[a-z]' that starts at d ends (exclusive); 0 for no match
LowerStartEnd(s, d) ==
    LET q == Scan(s, d + 1, WHITESPACE, FALSE)
    IN IF /\ CharAt(s, d) \in ENDMARKS
          /\ q > d + 1 /\ q <= Len(s) /\ CharAt(s, q) \in LOWER
       THEN q + 1 ELSE 0

\* len(re.findall(r'[.!?]\s+[a-z]', s)): left to right, non-overlapping
RECURSIVE CountLowerStart(_, _)
CountLowerStart(s, i) ==
    LET d == FirstFrom(i, Len(s), LAMBDA j : LowerStartEnd(s, j) > 0)
    IN IF d > Len(s) THEN 0 ELSE 1 + CountLowerStart(s, LowerStartEnd(s, d))

\* sep.join(parts)
Join(parts, sep) ==
    Concat([i \in 1..Len(parts) |-> IF i = 1 THEN parts[i] ELSE sep \o parts[i]],
           1, Len(parts), "")

\* the first n elements of a sequence: seq[:n]
Take(seq, n) == SubSeq(seq, 1, IF Len(seq) < n THEN Len(seq) ELSE n)

Min(a, b) == IF a <= b THEN a ELSE b
Max(a, b) == IF a >= b THEN a ELSE b

\* p points, in thirds of a point
Pts(p) == 3 * p


(***************************************************************************)
(* The rubric tables as the module defines them (src/app.py lines 15-41).  *)
(* Python dicts keep insertion order, so a dict of phrase lists is a       *)
(* sequence of [cat, keys] records.                                        *)
(***************************************************************************)
InitWEIGHTS ==
    [salutation |-> 5, keywords |-> 20, flow |-> 5, rate |-> 10,
     grammar |-> 15, vocab |-> 15, filler |-> 10, sentiment |-> 10]

InitMUST_KEYWORDS ==
    << [cat |-> "name", keys |-> <<"name", "myself", "i am", "i'm", "call me">>],
       [cat |-> "age", keys |-> <<"age", "years old", "year old">>],
       [cat |-> "school", keys |-> <<"school", "studying", "student">>],
       [cat |-> "class", keys |-> <<"class", "grade", "standard", "section">>],
       [cat |-> "family", keys |-> <<"family", "father", "mother", "parents", "brother", "sister">>],
       [cat |-> "hobbies", keys |-> <<"hobby", "hobbies", "enjoy", "like", "love", "interest",
                                      "favorite", "favourite", "play">>] >>

InitGOOD_KEYWORDS ==
    << [cat |-> "family_details", keys |-> <<"kind", "caring", "loving", "supportive">>],
       [cat |-> "location", keys |-> <<"from", "live in", "belong">>],
       [cat |-> "goals", keys |-> <<"ambition", "goal", "dream", "want to", "aspire", "hope">>],
       [cat |-> "unique", keys |-> <<"fun fact", "special", "unique", "interesting">>],
       [cat |-> "achievements", keys |-> <<"achievement", "award", "won", "proud">>] >>

InitFILLERS ==
    <<"um", "uh", "like", "you know", "so", "actually", "basically", "right",
      "i mean", "well", "kinda", "sort of", "okay", "hmm", "ah">>

\* duration_sec=52, the default of analyze_transcript
DefaultDuration == 52

(***************************************************************************)
(* The state.                                                              *)
(***************************************************************************)
VARIABLES
    WEIGHTS,        \* module global: criterion -> weight
    MUST_KEYWORDS,  \* module global: must-have categories
    GOOD_KEYWORDS,  \* module global: bonus categories
    FILLERS,        \* module global: filler lexicon
    pc,             \* position of analyze_transcript: "idle" when no call is active
    transcript,     \* argument of the active call, or of the call that raised
    duration_sec,   \* argument of the active call, or of the call that raised
    text,           \* local: the cleaned transcript
    results,        \* local: the report under construction
    found_must,     \* local: the matched must-have categories
    found_good,     \* local: the matched bonus categories
    polarity,       \* local: what sentiment_analyzer.polarity_scores(text) answered
    outcome,        \* how the last call ended: "returned", or the exception it raised
    kept            \* the reports a caller holds on to: [transcript, duration_sec, report]

tables == << WEIGHTS, MUST_KEYWORDS, GOOD_KEYWORDS, FILLERS >>
arguments == << transcript, duration_sec >>
vars == << WEIGHTS, MUST_KEYWORDS, GOOD_KEYWORDS, FILLERS, pc, transcript, duration_sec,
           text, results, found_must, found_good, polarity, outcome, kept >>

(***************************************************************************)
(* What a scorer hands back: a (score, feedback) pair, or an exception.    *)
(***************************************************************************)
Ok(score, label, args) == [score |-> score, label |-> label, args |-> args, exc |-> ""]
Raise(exc) == [score |-> 0, label |-> "", args |-> << >>, exc |-> exc]

(***************************************************************************)
(* Helpers (src/app.py lines 45-58).                                       *)
(***************************************************************************)
\* re.sub(r'\s+', ' ', text.strip())
_clean(s) == ReSubSpaces(Strip(s))

contains_any(s, keywords) == AnyIn(lower(s), keywords)

RECURSIVE MatchesFrom(_, _, _)
MatchesFrom(t, categories, i) ==
    IF i > Len(categories) THEN << >>
    ELSE (IF AnyIn(t, categories[i].keys) THEN << categories[i].cat >> ELSE << >>)
         \o MatchesFrom(t, categories, i + 1)

\* mutant: one entry per matching phrase instead of one per category
count_category_matches_perkey(s, categories) ==
    LET t == lower(s)
        hits(c) == Concat([j \in 1..Len(c.keys) |->
                              IF Contains(t, c.keys[j]) THEN << c.cat >> ELSE << >>],
                          1, Len(c.keys), << >>)
    IN Concat([i \in 1..Len(categories) |-> hits(categories[i])], 1, Len(categories), << >>)

count_category_matches(s, categories) == MatchesFrom(lower(s), categories, 1)

(***************************************************************************)
(* The scorers (src/app.py lines 60-133).                                  *)
(***************************************************************************)
\* mutant: without the "if not words" guard the ratio divides by zero
ttr_score_noguard(s) ==
    LET words == FindLowerWords(lower(s))
        unique == Cardinality({ words[i] : i \in 1..Len(words) })
        total == Len(words)
    IN IF total = 0 THEN Raise("ZeroDivisionError")
       ELSE IF 100 * unique >= 75 * total THEN Ok(Pts(15), "Excellent - TTR", <<unique, total>>)
       ELSE IF 100 * unique >= 65 * total THEN Ok(Pts(13), "Very Good - TTR", <<unique, total>>)
       ELSE IF 100 * unique >= 55 * total THEN Ok(Pts(11), "Good - TTR", <<unique, total>>)
       ELSE IF 100 * unique >= 45 * total THEN Ok(Pts(9), "Fair - TTR", <<unique, total>>)
       ELSE Ok(Pts(7), "Basic - TTR", <<unique, total>>)

ttr_score(s) ==
    LET words == FindLowerWords(lower(s))
        unique == Cardinality({ words[i] : i \in 1..Len(words) })
        total == Len(words)
    IN IF total = 0 THEN Ok(Pts(0), "No words", << >>)
       ELSE IF 100 * unique >= 75 * total THEN Ok(Pts(15), "Excellent - TTR", <<unique, total>>)
       ELSE IF 100 * unique >= 65 * total THEN Ok(Pts(13), "Very Good - TTR", <<unique, total>>)
       ELSE IF 100 * unique >= 55 * total THEN Ok(Pts(11), "Good - TTR", <<unique, total>>)
       ELSE IF 100 * unique >= 45 * total THEN Ok(Pts(9), "Fair - TTR", <<unique, total>>)
       ELSE Ok(Pts(7), "Basic - TTR", <<unique, total>>)

\* the error tally, in halves: every check of grammar_score weighs 0.5
GrammarErrors(s) ==
    LET fragments == ReSplitEndMarks(s)
    IN CountLoneI(s, 1) + CountLowerStart(s, 1)
       + Cardinality({ i \in 1..Len(fragments) : Len(Split(Strip(fragments[i]))) = 1 })

grammar_score(s) ==
    LET errors == GrammarErrors(s)
        total_words == Max(1, Len(Split(s)))
    IN IF 50 * errors < 1 * total_words THEN Ok(Pts(15), "Very few grammar issues", << >>)
       ELSE IF 50 * errors < 2 * total_words THEN Ok(Pts(13), "Minor grammar issues", << >>)
       ELSE IF 50 * errors < 3 * total_words THEN Ok(Pts(11), "Some grammar issues", << >>)
       ELSE IF 50 * errors < 5 * total_words THEN Ok(Pts(9), "Multiple grammar issues", << >>)
       ELSE Ok(Pts(7), "Needs grammar improvement", << >>)

RECURSIVE FillerCountFrom(_, _, _)
FillerCountFrom(t, fillers, i) ==
    IF i > Len(fillers) THEN 0
    ELSE StrCount(t, " " \o fillers[i] \o " ") + FillerCountFrom(t, fillers, i + 1)

\* sum(t.count(' ' + f + ' ') for f in FILLERS) with t = ' ' + text.lower() + ' '
FillerCount(s, fillers) == FillerCountFrom(" " \o lower(s) \o " ", fillers, 1)

filler_score(s) ==
    LET total == Len(FindWords(lower(s)))
        count == FillerCount(s, FILLERS)
    IN IF total = 0 THEN Ok(Pts(8), "No words", << >>)
       ELSE IF 100 * count < 1 * total THEN Ok(Pts(10), "Excellent", <<count, total>>)
       ELSE IF 100 * count < 2 * total THEN Ok(Pts(9), "Very Good", <<count, total>>)
       ELSE IF 100 * count < 3 * total THEN Ok(Pts(8), "Good", <<count, total>>)
       ELSE IF 100 * count < 5 * total THEN Ok(Pts(6), "Fair", <<count, total>>)
       ELSE Ok(Pts(4), "Needs improvement", <<count, total>>)

salutation_score(s) ==
    LET first == lower(Join(Take(SplitDot(s), 2), ". "))
        excellent == <<"i am excited", "feeling great", "pleased to introduce">>
        good == <<"good morning", "good afternoon", "good evening", "good day",
                  "hello everyone", "greetings">>
        normal == <<"hi", "hello", "hey">>
    IN IF AnyIn(first, excellent) THEN Ok(Pts(5), "Excellent salutation - enthusiastic", << >>)
       ELSE IF AnyIn(first, good) THEN Ok(Pts(5), "Proper greeting", << >>)
       ELSE IF AnyIn(first, normal) THEN Ok(Pts(4), "Basic greeting", << >>)
       ELSE Ok(Pts(2), "Started directly", << >>)

\* s is the answer of sentiment_analyzer.polarity_scores(text), in hundredths
sentiment_score(s) ==
    LET c == s.compound
        pos == s.pos
    IN IF c >= 30 \/ pos >= 20 THEN Ok(Pts(10), "Positive & engaging", <<c>>)
       ELSE IF c >= 10 \/ pos >= 10 THEN Ok(Pts(9), "Friendly", <<c>>)
       ELSE IF c >= -10 THEN Ok(Pts(8), "Neutral-positive", <<c>>)
       ELSE IF c >= -30 THEN Ok(Pts(6), "Neutral", <<c>>)
       ELSE Ok(Pts(4), "Could be more positive", <<c>>)

\* mutant: the top band excludes its upper end, 100 <= wpm < 150
speech_rate_score_excl(s, d) ==
    LET words == Len(Split(s))
        wpm == words * 60
    IN IF d <= 0 THEN Ok(Pts(8), "Duration not provided", << >>)
       ELSE IF 100 * d <= wpm /\ wpm < 150 * d
            THEN Ok(Pts(10), "Excellent speech rate", <<words, d>>)
       ELSE IF (80 * d <= wpm /\ wpm < 100 * d) \/ (150 * d <= wpm /\ wpm <= 170 * d)
            THEN Ok(Pts(8), "Good speech rate", <<words, d>>)
       ELSE IF (60 * d <= wpm /\ wpm < 80 * d) \/ (170 * d < wpm /\ wpm <= 190 * d)
            THEN Ok(Pts(6), "Acceptable speech rate", <<words, d>>)
       ELSE Ok(Pts(4), "Speech rate", <<words, d>>)

\* wpm = (words / d) * 60 is compared as words * 60 against bound * d, d > 0
speech_rate_score(s, d) ==
    LET words == Len(Split(s))
        wpm == words * 60
    IN IF d <= 0 THEN Ok(Pts(8), "Duration not provided", << >>)
       ELSE IF 100 * d <= wpm /\ wpm <= 150 * d
            THEN Ok(Pts(10), "Excellent speech rate", <<words, d>>)
       ELSE IF (80 * d <= wpm /\ wpm < 100 * d) \/ (150 * d < wpm /\ wpm <= 170 * d)
            THEN Ok(Pts(8), "Good speech rate", <<words, d>>)
       ELSE IF (60 * d <= wpm /\ wpm < 80 * d) \/ (170 * d < wpm /\ wpm <= 190 * d)
            THEN Ok(Pts(6), "Acceptable speech rate", <<words, d>>)
       ELSE Ok(Pts(4), "Speech rate", <<words, d>>)


(***************************************************************************)
(* The two criteria analyze_transcript scores inline (lines 151-168).      *)
(***************************************************************************)
\* ', '.join(found) or 'none'
NamesOrNone(found) == IF Len(found) = 0 THEN "none" ELSE Join(found, ", ")

\* mutant: the bonus is added after the cap and the sum is not capped again
KeywordPoints_nocap(must, good) ==
    LET must_pts == Min(Len(must) * (Pts(WEIGHTS.keywords) \div Len(MUST_KEYWORDS)),
                        Pts(WEIGHTS.keywords))
        bonus == Pts(Min(Len(good), 5))
    IN must_pts + bonus

\* min(must_pts + bonus, WEIGHTS["keywords"]) for the two lists of matched categories;
\* WEIGHTS["keywords"] / len(MUST_KEYWORDS) is 20/6, ten thirds of a point
KeywordPoints(must, good) ==
    LET must_pts == Min(Len(must) * (Pts(WEIGHTS.keywords) \div Len(MUST_KEYWORDS)),
                        Pts(WEIGHTS.keywords))
        bonus == Pts(Min(Len(good), 5))
    IN Min(must_pts + bonus, Pts(WEIGHTS.keywords))

\* lines 153-157, for the two lists of lines 152 and 154
keyword_score(must, good) ==
    LET kw_fb == "Found must-have: " \o NamesOrNone(must)
                 \o "; good extras: " \o NamesOrNone(good)
    IN IF Len(MUST_KEYWORDS) = 0 THEN Raise("ZeroDivisionError")
       ELSE Ok(KeywordPoints(must, good), kw_fb, << >>)

\* [s.strip() for s in text.split('.') if s.strip()]
Sentences(s) ==
    LET parts == SplitDot(s)
        stripped == [i \in 1..Len(parts) |-> Strip(parts[i])]
    IN SelectSeq(stripped, LAMBDA x : x # "")

flow_score(s) ==
    LET sentences == Sentences(s)
        name_early == \E i \in 1..Min(2, Len(sentences)) :
                          AnyIn(lower(sentences[i]), <<"name", "myself", "i am">>)
        has_closing == IF Len(sentences) > 0
                       THEN AnyIn(lower(sentences[Len(sentences)]),
                                  <<"thank", "thanks", "listening", "attention">>)
                       ELSE FALSE
        has_middle == Len(sentences) >= 4
        flow_pts == (IF name_early THEN 2 ELSE 0) + (IF has_middle THEN 2 ELSE 0)
                    + (IF has_closing THEN 1 ELSE 0)
        fb == StripChars((IF name_early THEN "good opening, " ELSE "")
                         \o (IF has_middle THEN "middle content, " ELSE "")
                         \o (IF has_closing THEN "closing" ELSE ""), {" ", ","})
    IN Ok(Pts(flow_pts), IF fb = "" THEN "Basic flow" ELSE fb, << >>)

(***************************************************************************)
(* Inputs.                                                                 *)
(***************************************************************************)
Str(v) == [type |-> "str", value |-> v]

\* what a direct caller may pass that is not text: None, a number
NonText == { [type |-> "NoneType", value |-> "None"], [type |-> "int", value |-> "42"] }

NoCall == [type |-> "", value |-> ""]
NoPolarity == [compound |-> 0, pos |-> 0, asked |-> FALSE]
NoResults == [overall_score |-> 0, word_count |-> 0, sentence_count |-> 0,
              criteria_scores |-> << >>]

\* raw transcripts are built from these pieces
Pieces == {"Hi ", "my name is Ann. ", "um ", "i am ", " \n\t", "thanks. ok "}

PieceTexts ==
    { Join(q, "") : q \in UNION { [1..k -> Pieces] : k \in 0..MaxPieces } }

\* n words
RepWords(n) == Join([i \in 1..n |-> "a"], " ")

\* the example of the filler criterion
FillerExample == "um um um testing testing testing testing testing testing testing"

\* a transcript that earns the maximum of every text criterion (at 150 WPM in 6 s)
FullMarks == "Good day. My name is Ann from Goa. School class family age play. Thank you."

Curated ==
    { FillerExample, FullMarks, "age", "age school", "age school kind",
      "age school kind goal", "my age is ten years old" }
    \cup { RepWords(n) : n \in {5, 17, 19, 33, 151} }

Transcripts == { Str(v) : v \in PieceTexts \cup Curated } \cup NonText

Durations == {-1, 0, 1, 2, 6, 20, 60, DefaultDuration}

\* answers of the sentiment model: compound and pos, in hundredths
Polarities ==
    { [compound |-> -50, pos |-> 0, asked |-> TRUE], [compound |-> -30, pos |-> 0, asked |-> TRUE],
      [compound |-> -10, pos |-> 0, asked |-> TRUE], [compound |-> 5, pos |-> 10, asked |-> TRUE],
      [compound |-> 30, pos |-> 20, asked |-> TRUE] }

\* the inputs of the runs in which the caller keeps the reports
KeptTranscripts == { Str(""), Str("Hi um ") } \cup NonText
KeptDurations == {0, 6}

\* the sentiment model as a fixed function of the text
KeptModel(s) == IF s = "" THEN CHOOSE x \in Polarities : x.compound = -10
                ELSE CHOOSE x \in Polarities : x.compound = 30

(***************************************************************************)
(* analyze_transcript (src/app.py lines 137-198), one action per block.    *)
(***************************************************************************)
Init ==
    /\ WEIGHTS = InitWEIGHTS
    /\ MUST_KEYWORDS = InitMUST_KEYWORDS
    /\ GOOD_KEYWORDS = InitGOOD_KEYWORDS
    /\ FILLERS = InitFILLERS
    /\ pc = "idle"
    /\ transcript = NoCall
    /\ duration_sec = 0
    /\ text = ""
    /\ results = NoResults
    /\ found_must = << >>
    /\ found_good = << >>
    /\ polarity = NoPolarity
    /\ outcome = ""
    /\ kept = << >>

\* the locals of analyze_transcript
Locals == [found_must |-> found_must, found_good |-> found_good, polarity |-> polarity]

\* the call is over: its locals are gone
DropLocals ==
    /\ text' = ""
    /\ results' = NoResults
    /\ found_must' = << >>
    /\ found_good' = << >>
    /\ polarity' = NoPolarity

\* the exception exc leaves analyze_transcript
Unwind(exc) ==
    /\ outcome' = exc
    /\ pc' = "idle"
    /\ DropLocals

\* lines 138-144: text = _clean(transcript), which calls transcript.strip(), then
\* the empty report
Call(t, d) ==
    /\ pc = "idle"
    /\ transcript' = t
    /\ duration_sec' = d
    /\ IF t.type # "str"
       THEN Unwind("AttributeError")
       ELSE LET cleaned == _clean(t.value)
            IN /\ text' = cleaned
               /\ results' = [overall_score |-> 0,
                              word_count |-> Len(Split(cleaned)),
                              sentence_count |-> Len(Sentences(cleaned)),
                              criteria_scores |-> << >>]
               /\ found_must' = << >>
               /\ found_good' = << >>
               /\ polarity' = NoPolarity
               /\ outcome' = ""
               /\ pc' = "salutation"
    /\ UNCHANGED << tables, kept >>

\* results["criteria_scores"].append({...}); results["overall_score"] += add;
\* loc holds the locals after the block
Emit(r, criterion, weight, add, next, loc) ==
    IF r.exc # ""
    THEN Unwind(r.exc)
    ELSE /\ results' = [results EXCEPT
                !.criteria_scores = Append(@, [criterion |-> criterion, score |-> r.score,
                                               max_score |-> weight, weight |-> weight,
                                               feedback |-> [label |-> r.label, args |-> r.args]]),
                !.overall_score = @ + add]
         /\ found_must' = loc.found_must
         /\ found_good' = loc.found_good
         /\ polarity' = loc.polarity
         /\ pc' = next
         /\ UNCHANGED << text, outcome >>

\* mutant: the salutation score is weighted without the division by its scale of 5
StepSalutation_unscaled ==
    /\ pc = "salutation"
    /\ LET r == salutation_score(text)
       IN Emit(r, "Salutation", WEIGHTS.salutation,
               r.score * WEIGHTS.salutation, "keywords", Locals)
    /\ UNCHANGED << tables, arguments, kept >>

\* lines 146-149
StepSalutation ==
    /\ pc = "salutation"
    /\ LET r == salutation_score(text)
       IN Emit(r, "Salutation", WEIGHTS.salutation,
               (r.score * WEIGHTS.salutation) \div 5, "keywords", Locals)
    /\ UNCHANGED << tables, arguments, kept >>

\* lines 151-159
StepKeywords ==
    /\ pc = "keywords"
    /\ LET must == count_category_matches(text, MUST_KEYWORDS)
           good == count_category_matches(text, GOOD_KEYWORDS)
           r == keyword_score(must, good)
       IN Emit(r, "Content & Keywords", WEIGHTS.keywords, r.score, "flow",
               [Locals EXCEPT !.found_must = must, !.found_good = good])
    /\ UNCHANGED << tables, arguments, kept >>

\* lines 161-168
StepFlow ==
    /\ pc = "flow"
    /\ LET r == flow_score(text)
       IN Emit(r, "Flow & Structure", WEIGHTS.flow, r.score, "rate", Locals)
    /\ UNCHANGED << tables, arguments, kept >>

\* mutant: an unknown duration skips the criterion instead of scoring it 8
StepRate_skip ==
    /\ pc = "rate"
    /\ IF duration_sec <= 0
       THEN /\ pc' = "grammar"
            /\ UNCHANGED << text, results, found_must, found_good, polarity, outcome >>
       ELSE LET r == speech_rate_score(text, duration_sec)
            IN Emit(r, "Speech Rate", WEIGHTS.rate, r.score, "grammar", Locals)
    /\ UNCHANGED << tables, arguments, kept >>

\* lines 170-174
StepRate ==
    /\ pc = "rate"
    /\ LET r == speech_rate_score(text, duration_sec)
       IN Emit(r, "Speech Rate", WEIGHTS.rate, r.score, "grammar", Locals)
    /\ UNCHANGED << tables, arguments, kept >>

\* lines 176-179
StepGrammar ==
    /\ pc = "grammar"
    /\ LET r == grammar_score(text)
       IN Emit(r, "Grammar & Language", WEIGHTS.grammar, r.score, "vocab", Locals)
    /\ UNCHANGED << tables, arguments, kept >>

\* lines 181-184
StepVocab ==
    /\ pc = "vocab"
    /\ LET r == ttr_score(text)
       IN Emit(r, "Vocabulary Richness", WEIGHTS.vocab, r.score, "filler", Locals)
    /\ UNCHANGED << tables, arguments, kept >>

\* lines 186-189
StepFiller ==
    /\ pc = "filler"
    /\ LET r == filler_score(text)
       IN Emit(r, "Clarity (Filler Words)", WEIGHTS.filler, r.score, "sentiment", Locals)
    /\ UNCHANGED << tables, arguments, kept >>

\* lines 191-194; s is the answer of the sentiment model for text
StepSentiment(s) ==
    /\ pc = "sentiment"
    /\ LET r == sentiment_score(s)
       IN Emit(r, "Engagement & Positivity", WEIGHTS.sentiment, r.score, "normalize",
               [Locals EXCEPT !.polarity = s])
    /\ UNCHANGED << tables, arguments, kept >>

\* mutant: the weights are rescaled in place so that they total 100
Normalize_rescale ==
    /\ pc = "normalize"
    /\ results' = [results EXCEPT !.overall_score = Min(Max(@, 0), Pts(100))]
    /\ pc' = "return"
    /\ WEIGHTS' = [k \in DOMAIN WEIGHTS |->
                      (WEIGHTS[k] * 100) \div
                          (WEIGHTS.salutation + WEIGHTS.keywords + WEIGHTS.flow + WEIGHTS.rate
                           + WEIGHTS.grammar + WEIGHTS.vocab + WEIGHTS.filler + WEIGHTS.sentiment)]
    /\ UNCHANGED << MUST_KEYWORDS, GOOD_KEYWORDS, FILLERS, arguments, text, found_must,
                    found_good, polarity, outcome, kept >>

\* line 197
Normalize ==
    /\ pc = "normalize"
    /\ results' = [results EXCEPT !.overall_score = Min(Max(@, 0), Pts(100))]
    /\ pc' = "return"
    /\ UNCHANGED << tables, arguments, text, found_must, found_good, polarity, outcome, kept >>

\* line 198: the report goes to the caller and the frame is gone
PopFrame ==
    /\ pc' = "idle"
    /\ outcome' = "returned"
    /\ transcript' = NoCall
    /\ duration_sec' = 0
    /\ DropLocals

\* line 198, for a caller that renders the report and drops it (lines 244-280)
Return ==
    /\ pc = "return"
    /\ PopFrame
    /\ UNCHANGED << tables, kept >>

\* line 198, for a caller that keeps every report it got
ReturnKept ==
    /\ pc = "return"
    /\ kept' = Append(kept, [transcript |-> transcript, duration_sec |-> duration_sec,
                             report |-> results])
    /\ PopFrame
    /\ UNCHANGED tables

CallAny == \E t \in Transcripts, d \in Durations : Call(t, d)

AskSentiment == \E s \in Polarities : StepSentiment(s)

Next ==
    \/ CallAny
    \/ StepSalutation
    \/ StepKeywords
    \/ StepFlow
    \/ StepRate
    \/ StepGrammar
    \/ StepVocab
    \/ StepFiller
    \/ AskSentiment
    \/ Normalize
    \/ Return

Spec == Init /\ [][Next]_vars

CallKept ==
    /\ Len(kept) < MaxCalls
    /\ \E t \in KeptTranscripts, d \in KeptDurations : Call(t, d)

AskSentimentKept == StepSentiment(KeptModel(text))

NextKept ==
    \/ CallKept
    \/ StepSalutation
    \/ StepKeywords
    \/ StepFlow
    \/ StepRate
    \/ StepGrammar
    \/ StepVocab
    \/ StepFiller
    \/ AskSentimentKept
    \/ Normalize
    \/ ReturnKept

SpecKept == Init /\ [][NextKept]_vars

(***************************************************************************)
(* Vocabulary of the properties.                                           *)
(***************************************************************************)
Entries == results.criteria_scores

Labels == <<"Salutation", "Content & Keywords", "Flow & Structure", "Speech Rate",
            "Grammar & Language", "Vocabulary Richness", "Clarity (Filler Words)",
            "Engagement & Positivity">>

\* the weight of each criterion, in the order of Labels
MaxScores == <<5, 20, 5, 10, 15, 15, 10, 10>>

RECURSIVE SumScores(_, _)
SumScores(entries, i) ==
    IF i > Len(entries) THEN 0 ELSE entries[i].score + SumScores(entries, i + 1)

Clamp(x) == Min(Max(x, 0), Pts(100))

NoDuplicates(seq) == \A i, j \in 1..Len(seq) : i # j => seq[i] # seq[j]

WeightTotal ==
    WEIGHTS.salutation + WEIGHTS.keywords + WEIGHTS.flow + WEIGHTS.rate
    + WEIGHTS.grammar + WEIGHTS.vocab + WEIGHTS.filler + WEIGHTS.sentiment

AllAtMax ==
    /\ Len(Entries) = 8
    /\ \A i \in 1..8 : Entries[i].score = Pts(Entries[i].max_score)

BlankTranscript == transcript.type = "str" /\ Strip(transcript.value) = ""

(***************************************************************************)
(* C1: every report has its composite in [0,100] and every criterion entry *)
(* has 0 <= score <= max_score, max_score being the criterion's weight     *)
(* (5, 20, 5, 10, 15, 15, 10, 10).                                         *)
(***************************************************************************)
C1_ScoresWithinBounds ==
    /\ \A i \in 1..Len(Entries) :
          /\ 0 <= Entries[i].score
          /\ Entries[i].score <= Pts(Entries[i].max_score)
          /\ i <= 8 => Entries[i].max_score = MaxScores[i]
    /\ pc = "return" => 0 <= results.overall_score /\ results.overall_score <= Pts(100)

C1_Witness ==
    /\ pc = "return"
    /\ text = FullMarks
    /\ Len(Entries) = 8
    /\ Entries[2].score = Pts(20)
    /\ Len(found_good) > 0

(***************************************************************************)
(* C2: the weights total 100, so a transcript that reaches the maximum of  *)
(* every criterion gets a composite of exactly 100.                        *)
(***************************************************************************)
C2_FullMarksIs100 ==
    (pc = "return" /\ AllAtMax) => (WeightTotal = 100 /\ results.overall_score = Pts(100))

(***************************************************************************)
(* C3: an empty or whitespace-only transcript raises nothing for any       *)
(* duration and yields salutation 2, keywords 0, flow 0, grammar 15,       *)
(* vocabulary 0 "No words", filler 8 "No words", zero words and zero       *)
(* sentences; the speech rate is 8 for duration <= 0 and otherwise what    *)
(* zero words in that duration earn.                                       *)
(***************************************************************************)
BlankExpected(i) ==
    CASE i = 1 -> [score |-> Pts(2), label |-> "Started directly"]
      [] i = 2 -> [score |-> Pts(0), label |-> "Found must-have: none; good extras: none"]
      [] i = 3 -> [score |-> Pts(0), label |-> "Basic flow"]
      [] i = 4 -> IF duration_sec <= 0
                  THEN [score |-> Pts(8), label |-> "Duration not provided"]
                  ELSE [score |-> Pts(4), label |-> "Speech rate"]
      [] i = 5 -> [score |-> Pts(15), label |-> "Very few grammar issues"]
      [] i = 6 -> [score |-> Pts(0), label |-> "No words"]
      [] i = 7 -> [score |-> Pts(8), label |-> "No words"]

C3_BlankTranscript ==
    BlankTranscript =>
        /\ outcome = ""
        /\ pc # "idle"
        /\ text = ""
        /\ results.word_count = 0
        /\ results.sentence_count = 0
        /\ \A i \in 1..Min(Len(Entries), 7) :
              /\ Entries[i].score = BlankExpected(i).score
              /\ Entries[i].feedback.label = BlankExpected(i).label

C3_Witness ==
    /\ pc = "return"
    /\ BlankTranscript
    /\ transcript.value # ""
    /\ duration_sec = 0
    /\ Len(Entries) = 8

(***************************************************************************)
(* C4: filler_score counts every whole-word occurrence of a filler, also   *)
(* fillers that follow one another: the example has 3 fillers in 10 words, *)
(* scores 4 and is labelled "Needs improvement".                           *)
(***************************************************************************)
C4_FillerExampleCountsThree ==
    (text = FillerExample /\ Len(Entries) >= 7) =>
        /\ Entries[7].score = Pts(4)
        /\ Entries[7].feedback.label = "Needs improvement"
        /\ Entries[7].feedback.args = <<3, 10>>

(***************************************************************************)
(* C5: the speech rate is 8 "Duration not provided" for duration <= 0;     *)
(* otherwise wpm = word_count * 60 / duration falls in exactly one of the  *)
(* bands [100,150] -> 10, [80,100) or (150,170] -> 8, [60,80) or (170,190] *)
(* -> 6, anything else -> 4; 150 scores 10, 151 and 99 score 8, 60 scores  *)
(* 6.                                                                      *)
(***************************************************************************)
C5_SpeechRateBands ==
    (pc # "idle" /\ Len(Entries) >= 4) =>
        LET d == duration_sec
            n == results.word_count * 60
            e == Entries[4]
            b10 == 100 * d <= n /\ n <= 150 * d
            b8 == (80 * d <= n /\ n < 100 * d) \/ (150 * d < n /\ n <= 170 * d)
            b6 == (60 * d <= n /\ n < 80 * d) \/ (170 * d < n /\ n <= 190 * d)
            b4 == n < 60 * d \/ n > 190 * d
        IN IF d <= 0
           THEN e.score = Pts(8) /\ e.feedback.label = "Duration not provided"
           ELSE /\ Cardinality({ k \in {10, 8, 6, 4} :
                        (k = 10 /\ b10) \/ (k = 8 /\ b8) \/ (k = 6 /\ b6) \/ (k = 4 /\ b4) }) = 1
                /\ b10 => e.score = Pts(10)
                /\ b8 => e.score = Pts(8)
                /\ b6 => e.score = Pts(6)
                /\ b4 => e.score = Pts(4)
                /\ n = 150 * d => e.score = Pts(10)
                /\ n = 151 * d => e.score = Pts(8)
                /\ n = 99 * d => e.score = Pts(8)
                /\ n = 60 * d => e.score = Pts(6)

C5_Witness ==
    /\ pc = "return"
    /\ duration_sec > 0
    /\ results.word_count * 60 = 151 * duration_sec
    /\ Entries[4].score = Pts(8)

(***************************************************************************)
(* C6: the keyword score is min(min(m * 20/6, 20) + min(b, 5), 20) for m   *)
(* matched must-have and b matched bonus categories; it never exceeds 20,  *)
(* never decreases when one more category of either kind is matched, and   *)
(* a category counts once however many of its phrases occur.               *)
(***************************************************************************)
ClaimedKeywordScore(m, b) ==
    Min(Min((m * Pts(20)) \div 6, Pts(20)) + Pts(Min(b, 5)), Pts(20))

\* the keyword score of the text s
KeywordScoreOf(s) ==
    KeywordPoints(count_category_matches(s, MUST_KEYWORDS),
                  count_category_matches(s, GOOD_KEYWORDS))

C6_KeywordCoverageMonotone ==
    pc = "flow" =>
        LET m == Len(found_must)
            b == Len(found_good)
            sc == Entries[2].score
            OneMore(categories, c) == text \o " " \o categories[c].keys[1]
        IN /\ NoDuplicates(found_must) /\ m <= 6
           /\ NoDuplicates(found_good) /\ b <= 5
           /\ sc = ClaimedKeywordScore(m, b)
           /\ sc <= Pts(20)
           /\ m < 6 => ClaimedKeywordScore(m + 1, b) >= sc
           /\ b < 5 => ClaimedKeywordScore(m, b + 1) >= sc
           /\ \A c \in 1..Len(MUST_KEYWORDS) :
                 LET more == OneMore(MUST_KEYWORDS, c)
                 IN /\ KeywordScoreOf(more) >= sc
                    /\ Len(count_category_matches(more, MUST_KEYWORDS)) <= m + 1
           /\ \A c \in 1..Len(GOOD_KEYWORDS) :
                 LET more == OneMore(GOOD_KEYWORDS, c)
                 IN /\ KeywordScoreOf(more) >= sc
                    /\ Len(count_category_matches(more, GOOD_KEYWORDS)) <= b + 1

C6_Witness ==
    /\ pc = "flow"
    /\ text = "my age is ten years old"
    /\ found_must = <<"age">>
    /\ KeywordScoreOf(text \o " school") > Entries[2].score

(***************************************************************************)
(* C7: a transcript that is not text (None, a number) makes the entry      *)
(* point fail with InvalidInputError and produce no report.                *)
(***************************************************************************)
C7_NonTextRaisesInvalidInputError ==
    (transcript.type \notin {"", "str"}) =>
        /\ outcome = "InvalidInputError"
        /\ results = NoResults

(***************************************************************************)
(* C8: every report has exactly eight entries, appended in the order       *)
(* Salutation, Content & Keywords, Flow & Structure, Speech Rate, Grammar  *)
(* & Language, Vocabulary Richness, Clarity (Filler Words), Engagement &   *)
(* Positivity, each with max_score equal to its declared weight.           *)
(***************************************************************************)
PcIndex ==
    CASE pc = "idle" -> 0
      [] pc = "salutation" -> 0
      [] pc = "keywords" -> 1
      [] pc = "flow" -> 2
      [] pc = "rate" -> 3
      [] pc = "grammar" -> 4
      [] pc = "vocab" -> 5
      [] pc = "filler" -> 6
      [] pc = "sentiment" -> 7
      [] pc = "normalize" -> 8
      [] pc = "return" -> 8

WeightOf(i) ==
    CASE i = 1 -> WEIGHTS.salutation
      [] i = 2 -> WEIGHTS.keywords
      [] i = 3 -> WEIGHTS.flow
      [] i = 4 -> WEIGHTS.rate
      [] i = 5 -> WEIGHTS.grammar
      [] i = 6 -> WEIGHTS.vocab
      [] i = 7 -> WEIGHTS.filler
      [] i = 8 -> WEIGHTS.sentiment

C8_EightEntriesInOrder ==
    /\ Len(Entries) = PcIndex
    /\ \A i \in 1..Min(Len(Entries), 8) :
          /\ Entries[i].criterion = Labels[i]
          /\ Entries[i].max_score = WeightOf(i)
          /\ Entries[i].max_score = MaxScores[i]

C8_Witness ==
    /\ pc = "return"
    /\ text # ""
    /\ duration_sec <= 0
    /\ Len(Entries) = 8
    /\ Entries[8].criterion = "Engagement & Positivity"

(***************************************************************************)
(* C9: whatever calls were made, the tables WEIGHTS, MUST_KEYWORDS,        *)
(* GOOD_KEYWORDS and FILLERS are unchanged, two reports for the same       *)
(* (transcript, duration) are identical whatever was analysed before or    *)
(* between them, and a report already handed out is not changed by a later *)
(* call.                                                                   *)
(***************************************************************************)
TablesIntact ==
    /\ WEIGHTS = InitWEIGHTS
    /\ MUST_KEYWORDS = InitMUST_KEYWORDS
    /\ GOOD_KEYWORDS = InitGOOD_KEYWORDS
    /\ FILLERS = InitFILLERS

SameInputSameReport ==
    \A i, j \in 1..Len(kept) :
        (kept[i].transcript = kept[j].transcript /\ kept[i].duration_sec = kept[j].duration_sec)
            => kept[i].report = kept[j].report

KeptReportsStay ==
    \A i \in 1..Len(kept) : i <= Len(kept') /\ kept'[i] = kept[i]

C9_TablesAndDeterminism ==
    /\ [](TablesIntact /\ SameInputSameReport)
    /\ [][KeptReportsStay]_vars

C9_Witness ==
    /\ Len(kept) = 3
    /\ kept[1].transcript = kept[3].transcript
    /\ kept[1].duration_sec = kept[3].duration_sec
    /\ kept[2].transcript # kept[1].transcript
    /\ kept[1].transcript.value # ""
    /\ Len(kept[3].report.criteria_scores) = 8

(***************************************************************************)
(* C10 as stated: the composite is the clamped sum of the sub-scores of    *)
(* the seven criteria the report lists.                                    *)
(***************************************************************************)
C10_CompositeIsSumOfSeven ==
    pc = "return" =>
        /\ Len(Entries) = 7
        /\ results.overall_score = Clamp(SumScores(Entries, 1))

(***************************************************************************)
(* C10 as amended: the composite is the clamped sum of the sub-scores of   *)
(* the eight criteria the report lists; while the report is being built    *)
(* the running composite is the sum of the entries appended so far.        *)
(***************************************************************************)
C10_CompositeIsSumOfEight ==
    /\ pc \notin {"idle", "return"} => results.overall_score = SumScores(Entries, 1)
    /\ pc = "return" =>
          /\ Len(Entries) = 8
          /\ results.overall_score = Clamp(SumScores(Entries, 1))

C10_Witness ==
    /\ pc = "return"
    /\ text = "age school kind"
    /\ Len(Entries) = 8
    /\ Entries[2].score = ClaimedKeywordScore(2, 1)
    /\ Entries[2].score % 3 # 0

=============================================================================
